---- MODULE Spec2Model ----
(***************************************************************************)
(* OCI image registry compatibility tests.                                 *)
(*                                                                         *)
(* The repository is a list of conformance scenarios run one after the     *)
(* other against a registry.  Two layouts of the same scenario list are    *)
(* in the sources:                                                         *)
(*   "plain":  go test functions (TestMain, then one Test<Scenario> per    *)
(*             scenario, each running its body as a t.Run subtest);        *)
(*   "ginkgo": TestConformance, which resolves the client and reference    *)
(*             and then runs a spec tree whose index scenarios have a      *)
(*             "Setup" spec and a "Push" spec each.  Only the index        *)
(*             scenarios of this layout are in the sources, so the ginkgo  *)
(*             run of the model consists of those.                         *)
(* The registry client (regclient) and the registry are the environment:   *)
(* every blob upload and every manifest/index push returns a result the    *)
(* model chooses.                                                          *)
(***************************************************************************)
EXTENDS Integers, Sequences, FiniteSets, TLC

VARIABLES
    layout,     \* "plain" | "ginkgo": which layout of the suite runs
    env,        \* REGISTRY_HOST / REGISTRY_NAMESPACE as configured
    fixtures,   \* the files under test-data/: readable or not, content digest
    client,     \* the package variable client
    reference,  \* the package variable reference
    pc,         \* "config" | "next" | "body" | "done"
    setup,      \* outcome of TestMain / of the configuration in TestConformance
    unit,       \* index of the current subtest (plain) or spec (ginkgo)
    step,       \* index of the next statement of the current unit
    ret,        \* descriptors returned by the successful pushes of the unit
    log,        \* registry calls issued by the current unit, in order
    result,     \* per unit: "Pending" | "Running" | "Passed" | "Failed"
    diag,       \* per unit: the failure message
    blobs,      \* registry: digests of the uploaded blobs
    manifests,  \* registry: digests of the accepted manifests and indexes
    tag,        \* registry: digest the tag "demo" points to
    faults,     \* results so far that a conformant registry would not give
    heap,       \* the Layers / Manifests arrays the baseline functions allocated
    exit        \* "running" | "ok" | "fail": what the run signals

vars == <<layout, env, fixtures, client, reference, pc, setup, unit, step,
          ret, log, result, diag, blobs, manifests, tag, faults, heap, exit>>

(***************************************************************************)
(* Bounds of the model                                                     *)
(***************************************************************************)
\* Number of registry calls of one run whose result differs from the result
\* of a reachable, conformant registry.
MaxFaults == 2

(***************************************************************************)
(* Media types and fixture data                                            *)
(***************************************************************************)
OCI1Manifest == "application/vnd.oci.image.manifest.v1+json"
OCI1ManifestList == "application/vnd.oci.image.index.v1+json"
OCI1ImageConfig == "application/vnd.oci.image.config.v1+json"
OCI1LayerGzip == "application/vnd.oci.image.layer.v1.tar+gzip"
OCI1Empty == "application/vnd.oci.empty.v1+json"
WrongMediaType == "application/wrong.type+json"

ArtifactFile == "test-data/demo-artifact.txt"
DemoFile == "test-data/demo-file.txt"
ConfigFile == "test-data/demo-config.txt"
Files == {ArtifactFile, DemoFile, ConfigFile}

ConfigDigest == "sha256:44136fa355b3678a1146ad16f7e8649e94fb4fc21fe77e8310c060f61caaff8a"
LayerDigest == "sha256:e63246ad2bce533bcfc8cdfcbc936eba500552aa49ff4527204b4c36d99c3e98"

\* The digest a file of test-data/ has when it is the payload the
\* hard-coded descriptors of getTestManifest describe.
DescribedDigest(path) ==
    IF path = ConfigFile THEN ConfigDigest ELSE LayerDigest

\* The digest of a file whose content is something else.
OtherDigest(path) == "sha256:content-of:" \o path

NoError == "<nil>"

(***************************************************************************)
(* Descriptors, manifests and indexes                                      *)
(***************************************************************************)
\* json.Marshal of the value followed by the digest of the bytes: two
\* values have one digest exactly when they have one serialisation.
DigestOf(m) == "sha256:" \o ToString(m)

\* int64(len(json)) of the serialised value.
SizeOf(m) == Len(ToString(m))

\* Mutant of getTestManifest: the Layers slice is one package-level array,
\* which every returned manifest shares and every caller writes in place.
getTestManifestSharedLayers ==
    [schemaVersion |-> 2,
     mediaType |-> "",
     artifactType |-> "",
     config |-> [mediaType |-> OCI1ImageConfig, digest |-> ConfigDigest, size |-> 2],
     layers |-> LET own == SelectSeq(heap, LAMBDA o : o.fn = "getTestManifest")
                IN IF own = <<>>
                   THEN <<[mediaType |-> OCI1LayerGzip, digest |-> LayerDigest, size |-> 69]>>
                   ELSE own[Len(own)].array,
     subject |-> <<>>]

\* func getTestManifest() v1.Manifest.  An unset string is "", the unset
\* subject pointer is the empty sequence.
getTestManifest ==
    [schemaVersion |-> 2,
     mediaType |-> "",
     artifactType |-> "",
     config |-> [mediaType |-> OCI1ImageConfig, digest |-> ConfigDigest, size |-> 2],
     layers |-> <<[mediaType |-> OCI1LayerGzip, digest |-> LayerDigest, size |-> 69]>>,
     subject |-> <<>>]

\* func getTestIndex() v1.Index
getTestIndex ==
    [schemaVersion |-> 2,
     mediaType |-> "",
     artifactType |-> "",
     manifests |-> <<>>]

\* The array a call of getTestManifest (Layers) or getTestIndex (Manifests)
\* allocated, with the content its caller left in it.
Allocated(call, m) ==
    IF call = "indexPutOCI"
    THEN [fn |-> "getTestIndex", array |-> m.manifests]
    ELSE [fn |-> "getTestManifest", array |-> m.layers]

\* The descriptor manifest.GetDescriptor() gives for a pushed value.
GetDescriptor(mt, m) ==
    [mediaType |-> mt, digest |-> DigestOf(m), size |-> SizeOf(m)]

\* The descriptor list getTestManifests returns for the manifest it pushed:
\* MediaType and Digest are set, Size is left at its zero value.
ManifestsOf(d) ==
    <<[mediaType |-> OCI1Manifest, digest |-> d.digest, size |-> 0]>>

(***************************************************************************)
(* The manifest or index each push statement constructs.  r is the list of *)
(* descriptors the earlier pushes of the same function returned.           *)
(***************************************************************************)
m_testNoManifestMediaType(r) == getTestManifest

m_testDefaultMediaType(r) == [getTestManifest EXCEPT !.mediaType = OCI1Manifest]

m_testDefaultConfigType(r) == [getTestManifest EXCEPT !.mediaType = OCI1Manifest]

m_testEmptyConfigFileAndArtifactType(r) ==
    [getTestManifest EXCEPT !.mediaType = OCI1Manifest,
                            !.artifactType = "application/my-artifact",
                            !.config.mediaType = OCI1Empty]

m_testArtifactTypeOverConfigType(r) ==
    [getTestManifest EXCEPT !.mediaType = OCI1Manifest,
                            !.config.mediaType = "application/my-artifact-legacy"]

\* Mutant of m_testBlobMediaType: the layer descriptor is replaced as a
\* whole, which drops its digest and size.
m_testBlobMediaTypeWholeLayer(r) ==
    [getTestManifest EXCEPT !.mediaType = OCI1Manifest,
                            !.layers[1] = [mediaType |-> "application/my-blob-format",
                                           digest |-> "",
                                           size |-> 0]]

m_testBlobMediaType(r) ==
    [getTestManifest EXCEPT !.mediaType = OCI1Manifest,
                            !.layers[1].mediaType = "application/my-blob-format"]

m_testWrongManifestMediaTypeFails(r) ==
    [getTestManifest EXCEPT !.mediaType = WrongMediaType]

m_firstManifest(r) == [getTestManifest EXCEPT !.mediaType = OCI1Manifest]

\* Mutant of m_secondManifest: subject.Size is not set.
m_secondManifestNoSize(r) ==
    [getTestManifest EXCEPT !.mediaType = OCI1Manifest,
                            !.subject = <<[mediaType |-> OCI1Manifest,
                                           digest |-> r[1].digest,
                                           size |-> 0]>>]

\* Mutant of m_secondManifest: the subject names the tag of the reference
\* instead of the digest of the returned descriptor.
m_secondManifestByTag(r) ==
    [getTestManifest EXCEPT !.mediaType = OCI1Manifest,
                            !.subject = <<[mediaType |-> OCI1Manifest,
                                           digest |-> reference.tag,
                                           size |-> r[1].size]>>]

\* subject.Digest, subject.Size from first_manifest.GetDescriptor()
m_secondManifest(r) ==
    [getTestManifest EXCEPT !.mediaType = OCI1Manifest,
                            !.subject = <<[mediaType |-> OCI1Manifest,
                                           digest |-> r[1].digest,
                                           size |-> r[1].size]>>]

m_getTestManifests(r) == [getTestManifest EXCEPT !.mediaType = OCI1Manifest]

i_testNoIndexMediaType(r) == [getTestIndex EXCEPT !.manifests = ManifestsOf(r[1])]

i_testDefaultIndexMediaType(r) ==
    [getTestIndex EXCEPT !.mediaType = OCI1ManifestList,
                         !.manifests = ManifestsOf(r[1])]

i_testIndexArtifactType(r) ==
    [getTestIndex EXCEPT !.mediaType = OCI1ManifestList,
                         !.artifactType = "application/my-artifact",
                         !.manifests = ManifestsOf(r[1])]

i_testWrongIndexMediaTypeFails(r) ==
    [getTestIndex EXCEPT !.mediaType = WrongMediaType,
                         !.manifests = ManifestsOf(r[1])]

i_lowerIndex(r) ==
    [getTestIndex EXCEPT !.mediaType = OCI1ManifestList,
                         !.manifests = ManifestsOf(r[1])]

\* Mutant of i_topIndex: the descriptor is appended to the manifests list of
\* the lower index.
i_topIndexAppendedToLower(r) ==
    [getTestIndex EXCEPT !.mediaType = OCI1ManifestList,
                         !.manifests = Append(ManifestsOf(r[1]),
                                              [mediaType |-> OCI1ManifestList,
                                               digest |-> r[2].digest,
                                               size |-> r[2].size])]

\* manifests = append(i.Manifests, nestedIndexDesc) on a fresh getTestIndex
i_topIndex(r) ==
    [getTestIndex EXCEPT !.mediaType = OCI1ManifestList,
                         !.manifests = Append(getTestIndex.manifests,
                                              [mediaType |-> OCI1ManifestList,
                                               digest |-> r[2].digest,
                                               size |-> r[2].size])]

Construct(b, r) ==
    CASE b = "testNoManifestMediaType" -> m_testNoManifestMediaType(r)
      [] b = "testDefaultMediaType" -> m_testDefaultMediaType(r)
      [] b = "testDefaultConfigType" -> m_testDefaultConfigType(r)
      [] b = "testEmptyConfigFileAndArtifactType" -> m_testEmptyConfigFileAndArtifactType(r)
      [] b = "testArtifactTypeOverConfigType" -> m_testArtifactTypeOverConfigType(r)
      [] b = "testBlobMediaType" -> m_testBlobMediaType(r)
      [] b = "testWrongManifestMediaTypeFails" -> m_testWrongManifestMediaTypeFails(r)
      [] b = "first_manifest" -> m_firstManifest(r)
      [] b = "second_manifest" -> m_secondManifest(r)
      [] b = "getTestManifests" -> m_getTestManifests(r)
      [] b = "testNoIndexMediaType" -> i_testNoIndexMediaType(r)
      [] b = "testDefaultIndexMediaType" -> i_testDefaultIndexMediaType(r)
      [] b = "testIndexArtifactType" -> i_testIndexArtifactType(r)
      [] b = "testWrongIndexMediaTypeFails" -> i_testWrongIndexMediaTypeFails(r)
      [] b = "nestedIndex" -> i_lowerIndex(r)
      [] b = "topIndex" -> i_topIndex(r)

(***************************************************************************)
(* The scenario functions as statement lists.  A statement is a registry   *)
(* call followed by the check of the error it returned.                    *)
(***************************************************************************)
Blob(path, chk) == [call |-> "blobPut", arg |-> path, assert |-> chk, want |-> ""]

PutManifest(b, chk) == [call |-> "manifestPutOCI", arg |-> b, assert |-> chk, want |-> ""]

PutIndex(b, chk) == [call |-> "indexPutOCI", arg |-> b, assert |-> chk, want |-> ""]

\* The two uploads every manifest scenario starts with.
PushArtifactAndConfig ==
    <<Blob(ArtifactFile, "checkError"), Blob(ConfigFile, "checkError")>>

\* func getTestManifests(t): uploads, then the manifest the index refers to.
getTestManifests(chk) ==
    <<Blob(DemoFile, chk), Blob(ConfigFile, chk), PutManifest("getTestManifests", chk)>>

\* g.Specify("Push file and config", ...) of the Setup context.
PushFileAndConfig == <<Blob(DemoFile, "BeNil"), Blob(ConfigFile, "BeNil")>>

\* The literal handed to MatchError in testWrongIndexMediaTypeFails.
WrongIndexMessage ==
    "manifest contains an unexpected media type: expected application/vnd.oci.image.index.v1+json, received application/wrong.type+json"

testNoManifestMediaType ==
    PushArtifactAndConfig \o <<PutManifest("testNoManifestMediaType", "checkError")>>

testDefaultMediaType ==
    PushArtifactAndConfig \o <<PutManifest("testDefaultMediaType", "checkError")>>

testDefaultConfigType ==
    PushArtifactAndConfig \o <<PutManifest("testDefaultConfigType", "checkError")>>

testEmptyConfigFileAndArtifactType ==
    PushArtifactAndConfig \o <<PutManifest("testEmptyConfigFileAndArtifactType", "checkError")>>

testArtifactTypeOverConfigType ==
    PushArtifactAndConfig \o <<PutManifest("testArtifactTypeOverConfigType", "checkError")>>

testBlobMediaType ==
    PushArtifactAndConfig \o <<PutManifest("testBlobMediaType", "checkError")>>

testWrongManifestMediaTypeFails ==
    PushArtifactAndConfig \o <<PutManifest("testWrongManifestMediaTypeFails", "expectError")>>

testManifestWithSubjectEntry ==
    PushArtifactAndConfig \o <<PutManifest("first_manifest", "checkError"),
                               PutManifest("second_manifest", "checkError")>>

testNoIndexMediaType ==
    getTestManifests("checkError") \o <<PutIndex("testNoIndexMediaType", "checkError")>>

testDefaultIndexMediaType ==
    getTestManifests("checkError") \o <<PutIndex("testDefaultIndexMediaType", "checkError")>>

testIndexArtifactType ==
    getTestManifests("checkError") \o <<PutIndex("testIndexArtifactType", "checkError")>>

testWrongIndexMediaTypeFails ==
    getTestManifests("checkError") \o <<PutIndex("testWrongIndexMediaTypeFails", "expectError")>>

testNestedIndexes ==
    getTestManifests("checkError") \o <<PutIndex("nestedIndex", "checkError"),
                                        PutIndex("topIndex", "checkError")>>

\* The Push specs of the spec tree.
specNoIndexMediaType ==
    getTestManifests("BeNil") \o <<PutIndex("testNoIndexMediaType", "BeNil")>>

specDefaultIndexMediaType ==
    getTestManifests("BeNil") \o <<PutIndex("testDefaultIndexMediaType", "BeNil")>>

specIndexArtifactType ==
    getTestManifests("BeNil") \o <<PutIndex("testIndexArtifactType", "BeNil")>>

specWrongIndexMediaTypeFails ==
    getTestManifests("BeNil")
        \o <<[PutIndex("testWrongIndexMediaTypeFails", "MatchError")
                 EXCEPT !.want = WrongIndexMessage]>>

specNestedIndexes ==
    getTestManifests("BeNil") \o <<PutIndex("nestedIndex", "BeNil"),
                                   PutIndex("topIndex", "BeNil")>>

\* One subtest (plain) or one spec (ginkgo) of a scenario.
Unit(s, n, e, body) == [scenario |-> s, node |-> n, expect |-> e, steps |-> body]

\* The Test functions of the plain layout after TestMain, in source order.
PlainUnits ==
    <<Unit("testNoManifestMediaType", "t.Run", "Accepted", testNoManifestMediaType),
      Unit("testDefaultMediaType", "t.Run", "Accepted", testDefaultMediaType),
      Unit("testDefaultConfigType", "t.Run", "Accepted", testDefaultConfigType),
      Unit("testEmptyConfigFileAndArtifactType", "t.Run", "Accepted", testEmptyConfigFileAndArtifactType),
      Unit("testArtifactTypeOverConfigType", "t.Run", "Accepted", testArtifactTypeOverConfigType),
      Unit("testBlobMediaType", "t.Run", "Accepted", testBlobMediaType),
      Unit("testWrongManifestMediaTypeFails", "t.Run", "Rejected", testWrongManifestMediaTypeFails),
      Unit("testManifestWithSubjectEntry", "t.Run", "Accepted", testManifestWithSubjectEntry),
      Unit("testNoIndexMediaType", "t.Run", "Accepted", testNoIndexMediaType),
      Unit("testDefaultIndexMediaType", "t.Run", "Accepted", testDefaultIndexMediaType),
      Unit("testIndexArtifactType", "t.Run", "Accepted", testIndexArtifactType),
      Unit("testWrongIndexMediaTypeFails", "t.Run", "Rejected", testWrongIndexMediaTypeFails),
      Unit("testNestedIndexes", "t.Run", "Accepted", testNestedIndexes)>>

\* The specs of the index scenarios in the order TestConformance adds them.
GinkgoUnits ==
    <<Unit("testNoIndexMediaType", "Setup", "Accepted", PushFileAndConfig),
      Unit("testNoIndexMediaType", "Push", "Accepted", specNoIndexMediaType),
      Unit("testDefaultIndexMediaType", "Setup", "Accepted", PushFileAndConfig),
      Unit("testDefaultIndexMediaType", "Push", "Accepted", specDefaultIndexMediaType),
      Unit("testIndexArtifactType", "Setup", "Accepted", PushFileAndConfig),
      Unit("testIndexArtifactType", "Push", "Accepted", specIndexArtifactType),
      Unit("testWrongIndexMediaTypeFails", "Setup", "Rejected", PushFileAndConfig),
      Unit("testWrongIndexMediaTypeFails", "Push", "Rejected", specWrongIndexMediaTypeFails),
      Unit("testNestedIndexes", "Setup", "Accepted", PushFileAndConfig),
      Unit("testNestedIndexes", "Push", "Accepted", specNestedIndexes)>>

Units == IF layout = "plain" THEN PlainUnits ELSE GinkgoUnits

NUnits == Len(Units)

Cur == Units[unit]

Stmt == Cur.steps[step]

(***************************************************************************)
(* Error checks                                                            *)
(***************************************************************************)
\* Mutant of checkError: the error is logged and the test goes on.
checkErrorLogsOnly(err) == TRUE

\* checkError returns (TRUE) when err is nil and ends the test otherwise.
checkError(err) == err = NoError

\* Mutant of expectError: a nil error does not end the test.
expectErrorLogsOnly(err) == TRUE

\* Mutant of expectError: the condition is inverted.
expectErrorInverted(err) == err = NoError

\* expectError ends the test when err is nil and logs the error otherwise.
expectError(err) == err # NoError

\* Expect(err).To(BeNil())
BeNil(err) == err = NoError

\* Expect(err).To(MatchError(want)): the error's text is want.
MatchError(err, want) == err # NoError /\ err = want

\* Whether the statement's check lets the function go on.
Continues(st, err) ==
    CASE st.assert = "checkError" -> checkError(err)
      [] st.assert = "expectError" -> expectError(err)
      [] st.assert = "BeNil" -> BeNil(err)
      [] st.assert = "MatchError" -> MatchError(err, st.want)

NoDiag == [step |-> 0, msg |-> ""]

\* The message of the failure: the place of the failing check and the error
\* it was handed (expectError has no error to print).
Diagnostic(k, st, err) ==
    [step |-> k,
     msg |-> IF st.assert = "expectError" THEN "succeeded unexpectedly!" ELSE err]

(***************************************************************************)
(* Configuration: TestMain and the head of TestConformance                 *)
(***************************************************************************)
\* A host string is kept as the list of its parts, scheme prefix first.
Hosts == {<<"registry.example">>,
          <<"http://", "registry.example">>,
          <<"https://", "registry.example">>}

\* REGISTRY_NAMESPACE; "" when the variable is not set.
Namespaces == {"namespace/project", ""}

RECURSIVE Join(_)
Join(h) == IF h = <<>> THEN "" ELSE Head(h) \o Join(Tail(h))

\* strings.HasPrefix(host, p)
HasPrefix(h, p) == h # <<>> /\ Head(h) = p

\* strings.Replace(host, old, "", 1): the first occurrence is removed.
RECURSIVE Replace(_, _)
Replace(h, old) ==
    IF h = <<>> THEN <<>>
    ELSE IF Head(h) = old THEN Tail(h)
    ELSE <<Head(h)>> \o Replace(Tail(h), old)

\* func loginToRegistry(host, user, password, tls)
loginToRegistry(host, tls) ==
    [set |-> TRUE,
     name |-> Join(host),
     tls |-> IF ~tls THEN "disabled" ELSE "enabled"]

NilClient == [set |-> FALSE, name |-> "", tls |-> "enabled"]

ZeroRef == [set |-> FALSE, registry |-> "", repository |-> "", tag |-> ""]

\* ref.New(host + "/" + namespace + ":demo"): the zero reference and an
\* error when the string has an empty registry or repository part.
RefNew(host, namespace) ==
    IF host = "" \/ namespace = "" THEN ZeroRef
    ELSE [set |-> TRUE, registry |-> host, repository |-> namespace, tag |-> "demo"]

RefNewError(host, namespace) ==
    IF host = "" \/ namespace = "" THEN "invalid reference" ELSE NoError

\* host = strings.Replace(strings.Replace(host, "http://", "", 1), "https://", "", 1)
StripScheme(h) == Join(Replace(Replace(h, "http://"), "https://"))

(***************************************************************************)
(* The environment: what a registry call may return                        *)
(***************************************************************************)
ErrOpen == "open: no such file or directory"
ErrTransport == "request failed: connection refused"
ErrManifestInvalid == "MANIFEST_INVALID: manifest invalid"
ErrInvalidReference == "ref is not set"

\* The media type the client expects of a value of the pushed Go type.
Expected(call) == IF call = "indexPutOCI" THEN OCI1ManifestList ELSE OCI1Manifest

\* The rejection of a value whose mediaType is not the one of its type.
UnexpectedMediaType(expected, received) ==
    "manifest contains an unexpected media type: expected " \o expected
        \o ", received " \o received

\* What a reachable registry that follows the image specification returns.
ConformantBlobPut == IF reference.set THEN NoError ELSE ErrInvalidReference

ConformantPut(call, m) ==
    IF ~reference.set THEN ErrInvalidReference
    ELSE IF m.mediaType \notin {"", Expected(call)}
         THEN UnexpectedMediaType(Expected(call), m.mediaType)
         ELSE NoError

\* blobPut: os.Open fails on a file that cannot be read; otherwise the
\* result is the error of client.BlobPut.
BlobPutResults(path) ==
    IF ~fixtures[path].readable THEN {ErrOpen}
    ELSE {ConformantBlobPut}
            \cup (IF faults < MaxFaults /\ reference.set THEN {ErrTransport} ELSE {})

\* The result a run without registry faults gives for the upload.
ExpectedBlobPut(path) ==
    IF ~fixtures[path].readable THEN ErrOpen ELSE ConformantBlobPut

\* manifestPutOCI / indexPutOCI: manifest.New or client.ManifestPut fails,
\* or the push is accepted.
PutResults(call, m) ==
    {ConformantPut(call, m)}
        \cup (IF faults < MaxFaults /\ reference.set
              THEN {NoError, ErrTransport, ErrManifestInvalid}
              ELSE {})

(***************************************************************************)
(* State machine                                                           *)
(***************************************************************************)
Layouts == {"plain", "ginkgo"}

UnitsOf(l) == IF l = "plain" THEN PlainUnits ELSE GinkgoUnits

\* The files of test-data/ as the hard-coded descriptors describe them.
DescribedFixtures == [p \in Files |-> [readable |-> TRUE, digest |-> DescribedDigest(p)]]

InitWith(hosts, namespaces, fixtureSets) ==
    /\ layout \in Layouts
    /\ env \in [host : hosts, namespace : namespaces]
    /\ fixtures \in fixtureSets
    /\ client = NilClient
    /\ reference = ZeroRef
    /\ pc = "config"
    /\ setup = "Pending"
    /\ unit = 0
    /\ step = 0
    /\ ret = <<>>
    /\ log = <<>>
    /\ result = [u \in 1..Len(UnitsOf(layout)) |-> "Pending"]
    /\ diag = [u \in 1..Len(UnitsOf(layout)) |-> NoDiag]
    /\ blobs = {}
    /\ manifests = {}
    /\ tag = ""
    /\ faults = 0
    /\ heap = <<>>
    /\ exit = "running"

\* The run of the suite against one configured host, with the files of
\* test-data/ holding the payloads the hard-coded descriptors describe.
Init == InitWith({<<"registry.example">>}, Namespaces, {DescribedFixtures})

\* The files of test-data/ are read when the suite runs: each holds the
\* described payload or some other content, or cannot be opened.
FixtureSets == [Files -> {"described", "other", "unreadable"}]

FixturesOf(f) ==
    [p \in Files |->
        [readable |-> f[p] # "unreadable",
         digest |-> IF f[p] = "described" THEN DescribedDigest(p) ELSE OtherDigest(p)]]

InitFixtures ==
    InitWith({<<"registry.example">>}, Namespaces, {FixturesOf(f) : f \in FixtureSets})

\* func TestMain(t *testing.T): an ordinary test function, the first one.
TestMain ==
    /\ pc = "config"
    /\ layout = "plain"
    /\ client' = loginToRegistry(env.host, ~HasPrefix(env.host, "http://"))
    /\ reference' = RefNew(StripScheme(env.host), env.namespace)
    /\ setup' = IF checkError(RefNewError(StripScheme(env.host), env.namespace))
                THEN "Passed" ELSE "Failed"
    /\ pc' = "next"
    /\ UNCHANGED <<layout, env, fixtures, unit, step, ret, log, result, diag,
                   blobs, manifests, tag, faults, exit,
                   heap>>

\* func TestConformance(t *testing.T) up to RunSpecs.  Expect(err).To(BeNil())
\* runs outside of any spec: a failure there ends the test binary before
\* RunSpecs is reached.
TestConformance ==
    /\ pc = "config"
    /\ layout = "ginkgo"
    /\ client' = loginToRegistry(env.host, ~HasPrefix(env.host, "http://"))
    /\ reference' = RefNew(StripScheme(env.host), env.namespace)
    /\ IF BeNil(RefNewError(StripScheme(env.host), env.namespace))
       THEN /\ setup' = "Passed"
            /\ pc' = "next"
            /\ exit' = exit
       ELSE /\ setup' = "Failed"
            /\ pc' = "done"
            /\ exit' = "fail"
    /\ UNCHANGED <<layout, env, fixtures, unit, step, ret, log, result, diag,
                   blobs, manifests, tag, faults,
                   heap>>

\* Mutant of RunUnit: the descriptors returned so far are package state and
\* outlive the test function.
RunUnitKeepsRet ==
    /\ pc = "next"
    /\ unit < NUnits
    /\ unit' = unit + 1
    /\ step' = 1
    /\ ret' = ret
    /\ log' = <<>>
    /\ result' = [result EXCEPT ![unit + 1] = "Running"]
    /\ pc' = "body"
    /\ UNCHANGED <<layout, env, fixtures, client, reference, setup, diag,
                   blobs, manifests, tag, faults, exit,
                   heap>>

\* t.Run(name, f) of the next Test function / the next spec of RunSpecs.
RunUnit ==
    /\ pc = "next"
    /\ unit < NUnits
    /\ unit' = unit + 1
    /\ step' = 1
    /\ ret' = <<>>
    /\ log' = <<>>
    /\ result' = [result EXCEPT ![unit + 1] = "Running"]
    /\ pc' = "body"
    /\ UNCHANGED <<layout, env, fixtures, client, reference, setup, diag,
                   blobs, manifests, tag, faults, exit,
                   heap>>

\* Mutant of After: a failed check ends the test binary.
AfterFailureEndsRun(err) ==
    IF ~Continues(Stmt, err)
    THEN /\ result' = [result EXCEPT ![unit] = "Failed"]
         /\ diag' = [diag EXCEPT ![unit] = Diagnostic(step, Stmt, err)]
         /\ pc' = "done"
         /\ step' = step
    ELSE IF step = Len(Cur.steps)
    THEN /\ result' = [result EXCEPT ![unit] = "Passed"]
         /\ diag' = diag
         /\ pc' = "next"
         /\ step' = step
    ELSE /\ step' = step + 1
         /\ UNCHANGED <<result, diag, pc>>

\* Mutant of After: a call that returned an error is issued once more
\* before the check is applied.
AfterRetriesOnce(err) ==
    IF err # NoError /\ Len(log) < step
    THEN UNCHANGED <<result, diag, pc, step>>
    ELSE IF ~Continues(Stmt, err)
    THEN /\ result' = [result EXCEPT ![unit] = "Failed"]
         /\ diag' = [diag EXCEPT ![unit] = Diagnostic(step, Stmt, err)]
         /\ pc' = "next"
         /\ step' = step
    ELSE IF step = Len(Cur.steps)
    THEN /\ result' = [result EXCEPT ![unit] = "Passed"]
         /\ diag' = diag
         /\ pc' = "next"
         /\ step' = step
    ELSE /\ step' = step + 1
         /\ UNCHANGED <<result, diag, pc>>

\* The check after a call: the unit fails, ends passed, or goes on.
After(err) ==
    IF ~Continues(Stmt, err)
    THEN /\ result' = [result EXCEPT ![unit] = "Failed"]
         /\ diag' = [diag EXCEPT ![unit] = Diagnostic(step, Stmt, err)]
         /\ pc' = "next"
         /\ step' = step
    ELSE IF step = Len(Cur.steps)
    THEN /\ result' = [result EXCEPT ![unit] = "Passed"]
         /\ diag' = diag
         /\ pc' = "next"
         /\ step' = step
    ELSE /\ step' = step + 1
         /\ UNCHANGED <<result, diag, pc>>

\* func blobPut(client, ref, path) and the check of its error.
BlobPut ==
    /\ pc = "body"
    /\ Stmt.call = "blobPut"
    /\ \E err \in BlobPutResults(Stmt.arg) :
          /\ blobs' = IF err = NoError
                      THEN blobs \cup {fixtures[Stmt.arg].digest}
                      ELSE blobs
          /\ log' = Append(log, [call |-> Stmt.call, arg |-> Stmt.arg, err |-> err,
                                 ref |-> reference, m |-> <<>>])
          /\ faults' = IF err = ExpectedBlobPut(Stmt.arg) THEN faults ELSE faults + 1
          /\ After(err)
    /\ UNCHANGED <<layout, env, fixtures, client, reference, setup, unit, ret,
                   manifests, tag, exit,
                   heap>>

\* func manifestPutOCI / indexPutOCI on the value the statement constructs,
\* and the check of its error.
ManifestPut ==
    /\ pc = "body"
    /\ Stmt.call \in {"manifestPutOCI", "indexPutOCI"}
    /\ LET m == Construct(Stmt.arg, ret) IN
       \E err \in PutResults(Stmt.call, m) :
          /\ manifests' = IF err = NoError THEN manifests \cup {DigestOf(m)} ELSE manifests
          /\ tag' = IF err = NoError THEN DigestOf(m) ELSE tag
          /\ ret' = IF err = NoError
                    THEN Append(ret, GetDescriptor(Expected(Stmt.call), m))
                    ELSE ret
          /\ log' = Append(log, [call |-> Stmt.call, arg |-> Stmt.arg, err |-> err,
                                 ref |-> reference, m |-> <<m>>])
          /\ faults' = IF err = ConformantPut(Stmt.call, m) THEN faults ELSE faults + 1
          /\ heap' = Append(heap, Allocated(Stmt.call, m))
          /\ After(err)
    /\ UNCHANGED <<layout, env, fixtures, client, reference, setup, unit, blobs, exit>>

\* Mutant of Exit: failed tests and specs do not fail the run.
ExitAlwaysOk ==
    /\ pc = "next"
    /\ unit = NUnits
    /\ pc' = "done"
    /\ exit' = "ok"
    /\ UNCHANGED <<layout, env, fixtures, client, reference, setup, unit, step,
                   ret, log, result, diag, blobs, manifests, tag, faults,
                   heap>>

\* The test binary ends: FAIL when a test function or a spec failed.
Exit ==
    /\ pc = "next"
    /\ unit = NUnits
    /\ pc' = "done"
    /\ exit' = IF setup = "Failed" \/ \E u \in 1..NUnits : result[u] = "Failed"
               THEN "fail" ELSE "ok"
    /\ UNCHANGED <<layout, env, fixtures, client, reference, setup, unit, step,
                   ret, log, result, diag, blobs, manifests, tag, faults,
                   heap>>

Next == TestMain \/ TestConformance \/ RunUnit \/ BlobPut \/ ManifestPut \/ Exit

Spec == Init /\ [][Next]_vars

SpecFixtures == InitFixtures /\ [][Next]_vars

\* REGISTRY_HOST is an input: bare, or with the scheme in front.
InitHosts == InitWith(Hosts, Namespaces, {DescribedFixtures})

SpecHosts == InitHosts /\ [][Next]_vars

(***************************************************************************)
(* Vocabulary of the properties                                            *)
(***************************************************************************)
Terminal == {"Passed", "Failed"}

IsPut(e) == e.call \in {"manifestPutOCI", "indexPutOCI"}

\* The current unit has ended and its calls are still in the log.
Finished == pc \in {"next", "done"} /\ unit >= 1 /\ result[unit] \in Terminal

LastCall == log[Len(log)]

FinalStmt == Cur.steps[Len(Cur.steps)]

\* The last statement of the current unit was executed.
FinalIssued == Len(log) = Len(Cur.steps)

UnitsOfScenario(s) == {u \in 1..NUnits : Units[u].scenario = s}

ScenarioPassed(s) == \A u \in UnitsOfScenario(s) : result[u] = "Passed"

\* The current unit is the last subtest or spec of its scenario.
LastOfScenario == \A u \in UnitsOfScenario(Cur.scenario) : u <= unit

\* The error text states the expected canonical media type of the pushed
\* value and the media type received.
StatesTypes(err) == err = UnexpectedMediaType(Expected(LastCall.call), WrongMediaType)

\* A unit of a wrong-mediaType scenario has ended after issuing its push.
RejectionPushDone ==
    /\ Finished
    /\ Cur.expect = "Rejected"
    /\ IsPut(FinalStmt)
    /\ FinalIssued

(***************************************************************************)
(* C1                                                                      *)
(***************************************************************************)
\* C1 as stated: when a scenario expected to be accepted has ended, it has
\* passed if and only if its manifest/index push was issued, returned no
\* error and returned a descriptor with a non-empty digest; and when the
\* push returned an error, that error is the diagnostic.
C1_PassedIffPushSucceeded ==
    (Finished /\ Cur.expect = "Accepted" /\ LastOfScenario /\ IsPut(FinalStmt)) =>
        /\ ScenarioPassed(Cur.scenario)
              <=> (/\ FinalIssued
                   /\ LastCall.err = NoError
                   /\ ret[Len(ret)].digest # "")
        /\ (FinalIssued /\ LastCall.err # NoError) => diag[unit].msg = LastCall.err

\* C1 amended: every subtest or spec of a scenario expected to be accepted
\* passes if and only if it executed all of its statements and every upload
\* and push returned no error (for the one issuing the push: the push was
\* issued, returned no error and a descriptor with a non-empty digest); a
\* failed one reports the error of the call that failed.  The Setup spec of
\* an index scenario is such a unit of its own, so the scenario passes only
\* if the uploads of the Setup spec succeeded as well.
C1_UnitPassedIffNoCallFailed ==
    (Finished /\ Cur.expect = "Accepted") =>
        /\ result[unit] = "Passed"
              <=> (/\ FinalIssued
                   /\ \A k \in 1..Len(log) : log[k].err = NoError
                   /\ IsPut(LastCall) => ret[Len(ret)].digest # "")
        /\ result[unit] = "Failed"
              => diag[unit] = [step |-> Len(log), msg |-> LastCall.err]
        /\ (LastOfScenario /\ ScenarioPassed(Cur.scenario))
              => (FinalIssued /\ LastCall.err = NoError)

\* An accepted push ends the unit that issued it as Passed.
C1_Witness ==
    /\ Finished
    /\ Cur.expect = "Accepted"
    /\ FinalIssued
    /\ IsPut(LastCall)
    /\ LastCall.err = NoError
    /\ result[unit] = "Passed"

(***************************************************************************)
(* C2                                                                      *)
(***************************************************************************)
\* C2 as stated: a wrong-mediaType scenario passes only if the push failed
\* with an error text that states the expected and the received media type,
\* and fails if the push succeeded or failed with another text.
C2_PassesOnlyOnStatedTypes ==
    RejectionPushDone =>
        /\ result[unit] = "Passed"
              => (LastCall.err # NoError /\ StatesTypes(LastCall.err))
        /\ (LastCall.err = NoError \/ ~StatesTypes(LastCall.err))
              => result[unit] = "Failed"

\* C2 amended: a wrong-mediaType scenario fails if the push succeeded.  With
\* expectError (the go test functions) it passes on every failed push,
\* whatever the text; with MatchError (the Push spec of the index scenario)
\* it passes exactly when the text is the message stating the expected and
\* the received media type.
C2_PassesOnFailureTextOnlyWhereMatched ==
    RejectionPushDone =>
        /\ LastCall.err = NoError => result[unit] = "Failed"
        /\ FinalStmt.assert = "expectError"
              => (result[unit] = "Passed" <=> LastCall.err # NoError)
        /\ FinalStmt.assert = "MatchError"
              => (result[unit] = "Passed" <=> StatesTypes(LastCall.err))

\* The push of a wrong mediaType was rejected with the stated types.
C2_Witness ==
    /\ RejectionPushDone
    /\ StatesTypes(LastCall.err)
    /\ result[unit] = "Passed"

(***************************************************************************)
(* C3                                                                      *)
(***************************************************************************)
\* C3 as stated: in every rejection scenario, a push that fails with a
\* wording other than the expected message still ends Passed.
C3_DifferentWordingPasses ==
    (RejectionPushDone /\ LastCall.err # NoError /\ ~StatesTypes(LastCall.err))
        => result[unit] = "Passed"

\* C3 amended: a push that fails with another wording ends Passed, with no
\* failure message, in the go test functions (expectError logs the error);
\* the Push spec of the wrong-index scenario compares the error with the
\* expected message and ends Failed, the error being the diagnostic.
C3_DifferentWordingPassesUnlessMatched ==
    (RejectionPushDone /\ LastCall.err # NoError /\ ~StatesTypes(LastCall.err))
        => IF layout = "plain"
           THEN result[unit] = "Passed" /\ diag[unit] = NoDiag
           ELSE result[unit] = "Failed" /\ diag[unit].msg = LastCall.err

\* A rejection with another wording was tolerated.
C3_Witness ==
    /\ RejectionPushDone
    /\ LastCall.err = ErrManifestInvalid
    /\ result[unit] = "Passed"

(***************************************************************************)
(* C4                                                                      *)
(***************************************************************************)
\* The pushes of the current unit, as log entries.
Pushes == {k \in 1..Len(log) : IsPut(log[k])}

Pushed(k) == log[k].m[1]

\* The fields, among those a scenario may vary, in which a pushed manifest
\* differs from getTestManifest, or a pushed index from getTestIndex (the
\* manifests list it is given aside).
Mutated(k) ==
    IF log[k].call = "manifestPutOCI"
    THEN {f \in {"mediaType", "artifactType", "config.mediaType",
                 "layers[0].mediaType", "subject"} :
            CASE f = "mediaType" -> Pushed(k).mediaType # getTestManifest.mediaType
              [] f = "artifactType" -> Pushed(k).artifactType # getTestManifest.artifactType
              [] f = "config.mediaType" ->
                    Pushed(k).config.mediaType # getTestManifest.config.mediaType
              [] f = "layers[0].mediaType" ->
                    Pushed(k).layers[1].mediaType # getTestManifest.layers[1].mediaType
              [] f = "subject" -> Pushed(k).subject # getTestManifest.subject}
    ELSE {f \in {"mediaType", "artifactType"} :
            CASE f = "mediaType" -> Pushed(k).mediaType # getTestIndex.mediaType
              [] f = "artifactType" -> Pushed(k).artifactType # getTestIndex.artifactType}

\* Outside of those fields the pushed value is the baseline.
BaselineElsewhere(k) ==
    IF log[k].call = "manifestPutOCI"
    THEN [Pushed(k) EXCEPT !.mediaType = getTestManifest.mediaType,
                           !.artifactType = getTestManifest.artifactType,
                           !.config.mediaType = getTestManifest.config.mediaType,
                           !.layers[1].mediaType = getTestManifest.layers[1].mediaType,
                           !.subject = getTestManifest.subject] = getTestManifest
    ELSE [Pushed(k) EXCEPT !.mediaType = getTestIndex.mediaType,
                           !.artifactType = getTestIndex.artifactType,
                           !.manifests = getTestIndex.manifests] = getTestIndex

\* C4 as stated: every pushed manifest or index differs from the baseline
\* in exactly one of mediaType, artifactType, config.mediaType,
\* layers[0].mediaType and subject.
C4_ExactlyOneFieldMutated ==
    \A k \in Pushes : Cardinality(Mutated(k)) = 1

\* C4 amended: every pushed manifest or index differs from the baseline only
\* in fields among mediaType, artifactType, config.mediaType,
\* layers[0].mediaType and subject (and, for an index, the manifests list);
\* it differs in none of them (the no-mediaType scenarios) up to three of
\* them (mediaType, artifactType and config.mediaType together), and a
\* scenario that changes two or more always sets mediaType among them.
C4_OnlyListedFieldsMutated ==
    \A k \in Pushes :
        /\ BaselineElsewhere(k)
        /\ Cardinality(Mutated(k)) <= 3
        /\ Cardinality(Mutated(k)) >= 2 => "mediaType" \in Mutated(k)

\* The manifest with mediaType, artifactType and config.mediaType changed
\* was pushed.
C4_Witness ==
    \E k \in Pushes :
        Mutated(k) = {"mediaType", "artifactType", "config.mediaType"}

(***************************************************************************)
(* C5                                                                      *)
(***************************************************************************)
\* Digests of the files the current unit uploaded other than the config.
UploadedPayloads ==
    {fixtures[log[k].arg].digest :
        k \in {j \in 1..Len(log) : /\ log[j].call = "blobPut"
                                   /\ log[j].err = NoError
                                   /\ log[j].arg # ConfigFile}}

UploadedConfigs ==
    {fixtures[log[k].arg].digest :
        k \in {j \in 1..Len(log) : /\ log[j].call = "blobPut"
                                   /\ log[j].err = NoError
                                   /\ log[j].arg = ConfigFile}}

InSubjectScenario == unit >= 1 /\ Cur.scenario = "testManifestWithSubjectEntry"

\* C6: manifest B of the subject scenario is pushed only after the push of
\* manifest A returned no error, B.subject carries the digest and the size of
\* the descriptor returned for A, and B is never pushed when A's push failed.
C6_SubjectIsReturnedDescriptor ==
    InSubjectScenario =>
        /\ Len(log) >= 4 =>
              /\ log[3].err = NoError
              /\ ret[1] = GetDescriptor(OCI1Manifest, Pushed(3))
              /\ ret[1].digest \in manifests
              /\ Len(Pushed(4).subject) = 1
              /\ Pushed(4).subject[1].digest = ret[1].digest
              /\ Pushed(4).subject[1].size = ret[1].size
        /\ (Len(log) >= 3 /\ log[3].err # NoError) =>
              /\ Len(log) = 3
              /\ result[unit] = "Failed"

\* Manifest B was pushed.
C6_Witness ==
    /\ InSubjectScenario
    /\ Len(log) = 4
    /\ log[4].arg = "second_manifest"

(***************************************************************************)
(* C7                                                                      *)
(***************************************************************************)
InNestedScenario ==
    unit >= 1 /\ Cur.scenario = "testNestedIndexes" /\ Cur.node \in {"t.Run", "Push"}

\* C7: the outer index of the nested-index scenario is constructed only
\* after the inner index push returned no error; its manifests list is the
\* single entry with the digest and size of the descriptor returned for the
\* inner index and the index media type; it is never pushed when the inner
\* push failed.
C7_OuterIndexRefersToInner ==
    InNestedScenario =>
        /\ Len(log) >= 5 =>
              /\ log[4].err = NoError
              /\ ret[2] = GetDescriptor(OCI1ManifestList, Pushed(4))
              /\ Pushed(5).manifests = <<[mediaType |-> OCI1ManifestList,
                                           digest |-> ret[2].digest,
                                           size |-> ret[2].size]>>
        /\ (Len(log) >= 4 /\ log[4].err # NoError) =>
              /\ Len(log) = 4
              /\ result[unit] = "Failed"

\* The outer index was pushed.
C7_Witness ==
    /\ InNestedScenario
    /\ Len(log) = 5
    /\ log[5].arg = "topIndex"

(***************************************************************************)
(* C8                                                                      *)
(***************************************************************************)
\* The unit ended because a blob upload returned an error.
FixtureFailed(u) ==
    /\ result[u] = "Failed"
    /\ Units[u].steps[diag[u].step].call = "blobPut"

HarnessFault(u) ==
    /\ result[u] \notin {"Pending", "Running", "Passed"}
    /\ \/ Units[u].steps[diag[u].step].call = "blobPut"
       \/ diag[u].msg \in {ErrOpen, ErrTransport, ErrInvalidReference}

\* The failure of the unit is the registry accepting or rejecting against
\* the expectation of the scenario.
Contradicted(u) ==
    /\ result[u] \notin {"Pending", "Running", "Passed"}
    /\ ~HarnessFault(u)

\* C9: a unit that has ended is Passed, Failed or Errored; it is Errored
\* exactly when the fault is on the side of the harness and Failed exactly
\* when the registry contradicted the expectation.
C9_ErroredDistinctFromFailed ==
    \A u \in 1..NUnits :
        result[u] \notin {"Pending", "Running"} =>
            /\ result[u] \in {"Passed", "Failed", "Errored"}
            /\ result[u] = "Errored" <=> HarnessFault(u)
            /\ result[u] = "Failed" <=> Contradicted(u)

(***************************************************************************)
(* C10                                                                     *)
(***************************************************************************)
\* C10 as stated: the ended run signals failure if and only if at least one
\* scenario ended Failed, and signals success when every scenario Passed.
C10_FailsIffScenarioFailed ==
    pc = "done" =>
        /\ exit = "fail" <=> \E u \in 1..NUnits : result[u] = "Failed"
        /\ (\A u \in 1..NUnits : result[u] = "Passed") => exit = "ok"

\* C10 amended: the ended run signals failure if and only if at least one
\* scenario ended Failed or the resolution of the reference before the
\* scenario list failed (TestConformance then ends the run before any
\* scenario is started); it signals success when every scenario Passed.
C10_FailsIffScenarioOrSetupFailed ==
    pc = "done" =>
        /\ exit \in {"ok", "fail"}
        /\ exit = "fail" <=> (\/ \E u \in 1..NUnits : result[u] = "Failed"
                              \/ setup = "Failed")
        /\ (\A u \in 1..NUnits : result[u] = "Passed") => exit = "ok"
        /\ (setup = "Failed" /\ layout = "ginkgo")
              => \A u \in 1..NUnits : result[u] = "Pending"

\* A run in which every scenario passed has ended with success.
C10_Witness ==
    /\ pc = "done"
    /\ exit = "ok"
    /\ \A u \in 1..NUnits : result[u] = "Passed"

(***************************************************************************)
(* C11                                                                     *)
(***************************************************************************)
\* C11: the client and the reference are resolved before the first scenario
\* starts, and no scenario issues a blob upload or a manifest/index push
\* while the client or the reference is still the zero value, also when the
\* resolution of the reference failed.
C11_NoCallBeforeResolved ==
    /\ unit >= 1 => setup # "Pending"
    /\ Len(log) >= 1 => (client.set /\ reference.set)

(***************************************************************************)
(* C12                                                                     *)
(***************************************************************************)
\* The descriptors the successful pushes among the first k calls of the
\* current unit returned.
ReturnedUpTo(k) ==
    LET s == SelectSeq(SubSeq(log, 1, k), LAMBDA e : IsPut(e) /\ e.err = NoError)
    IN [i \in 1..Len(s) |-> GetDescriptor(Expected(s[i].call), s[i].m[1])]

\* The push at position k of the log refers, in its subject or manifests
\* list, to a descriptor a push of the same unit returned before it.
RefersToOwnPush(k, d) ==
    \E j \in 1..(k - 1) :
        /\ IsPut(log[j])
        /\ log[j].err = NoError
        /\ GetDescriptor(Expected(log[j].call), Pushed(j)).digest = d.digest

\* C12 as stated: the descriptor the subject scenario puts into B.subject and
\* the descriptor the nested-index scenario puts into the outer index were
\* produced by an earlier scenario of the run, not by the scenario itself.
C12_RefersToEarlierScenario ==
    /\ (InSubjectScenario /\ Len(log) >= 4)
          => ~RefersToOwnPush(4, Pushed(4).subject[1])
    /\ (InNestedScenario /\ Len(log) >= 5)
          => ~RefersToOwnPush(5, Pushed(5).manifests[1])

\* C12 amended: every scenario is self-contained.  The descriptors a test
\* function or spec holds are exactly those its own successful pushes
\* returned, every value it pushes is built from them alone, and the
\* descriptors the subject and nested-index scenarios refer to are the same
\* in every run, whatever ran, passed or failed before them; the order of
\* the scenario list does not change them.
C12_RefersToOwnPushesOnly ==
    /\ unit >= 1 => ret = ReturnedUpTo(Len(log))
    /\ \A k \in Pushes : Pushed(k) = Construct(log[k].arg, ReturnedUpTo(k - 1))
    /\ (InSubjectScenario /\ Len(log) >= 4) =>
          /\ RefersToOwnPush(4, Pushed(4).subject[1])
          /\ Pushed(4).subject = <<GetDescriptor(OCI1Manifest, m_firstManifest(<<>>))>>
    /\ (InNestedScenario /\ Len(log) >= 5) =>
          /\ RefersToOwnPush(5, Pushed(5).manifests[1])
          /\ Pushed(5).manifests =
                <<GetDescriptor(OCI1ManifestList,
                      i_lowerIndex(<<GetDescriptor(OCI1Manifest,
                                                   m_getTestManifests(<<>>))>>))>>

\* Manifest B was pushed with its subject in a run in which the earlier
\* scenario that pushes the same manifest as A had failed.
C12_Witness ==
    /\ layout = "plain"
    /\ InSubjectScenario
    /\ Len(log) = 4
    /\ result[2] = "Failed"

(***************************************************************************)
(* C13                                                                     *)
(***************************************************************************)
\* An earlier subtest or spec of the scenario of the current unit failed.
EarlierOfScenarioFailed ==
    \E u \in UnitsOfScenario(Cur.scenario) : u < unit /\ result[u] = "Failed"

\* C13 as stated: once a blob upload or a push has returned an error inside
\* a scenario, the scenario issues no further registry call, in the go test
\* layout and in the Setup/Push layout.
C13_NoCallAfterErrorInScenario ==
    unit >= 1 =>
        /\ \A k \in 1..(Len(log) - 1) : log[k].err = NoError
        /\ EarlierOfScenarioFailed => Len(log) = 0

\* C13 amended: nothing is retried inside a subtest or spec: the calls it
\* issued are its statements in order, each at most once, and a call that
\* returned an error is the last one it issues.  In the Setup/Push layout
\* the Push spec of a scenario still runs after its Setup spec failed on an
\* upload, and issues the uploads of the Setup spec again before its push.
C13_NoCallAfterErrorInUnit ==
    unit >= 1 =>
        /\ \A k \in 1..(Len(log) - 1) : log[k].err = NoError
        /\ Len(log) <= Len(Cur.steps)
        /\ \A k \in 1..Len(log) :
              /\ log[k].call = Cur.steps[k].call
              /\ log[k].arg = Cur.steps[k].arg
        /\ (Len(log) >= 1 /\ LastCall.err # NoError) => pc # "body"
        /\ (EarlierOfScenarioFailed /\ Len(log) >= 1) =>
              /\ layout = "ginkgo"
              /\ Cur.node = "Push"
              /\ \A u \in UnitsOfScenario(Cur.scenario) :
                    u < unit => Units[u].node = "Setup"

\* The Push spec issued the upload its failed Setup spec had failed on.
C13_Witness ==
    /\ unit >= 1
    /\ \E u \in UnitsOfScenario(Cur.scenario) :
          /\ u < unit
          /\ result[u] = "Failed"
          /\ \E k \in 1..Len(log) :
                log[k].arg = Units[u].steps[diag[u].step].arg

(***************************************************************************)
(* C14                                                                     *)
(***************************************************************************)
\* The descriptors by which a pushed manifest or index refers to other
\* manifests and indexes.
CrossReferences(m) ==
    IF "subject" \in DOMAIN m
    THEN {m.subject[i] : i \in 1..Len(m.subject)}
    ELSE {m.manifests[i] : i \in 1..Len(m.manifests)}

\* The object the registry resolves a descriptor to: a descriptor naming
\* the tag resolves to what the tag points to now, any other to the content
\* with its digest.
Designated(d) == IF d.digest = reference.tag THEN tag ELSE d.digest

C16_IndexEntryEqualsReturnedDescriptor ==
    \A k \in Pushes :
        (log[k].call = "indexPutOCI" /\ log[k].arg # "topIndex") =>
            /\ Len(Pushed(k).manifests) = 1
            /\ Pushed(k).manifests[1].digest = ReturnedUpTo(k - 1)[1].digest
            /\ Pushed(k).manifests[1].size = ReturnedUpTo(k - 1)[1].size
            /\ Pushed(k).manifests[1].size = SizeOf(Pushed(3))

(***************************************************************************)
(* C17                                                                     *)
(***************************************************************************)
\* C17: once the configuration is resolved, the host name loginToRegistry
\* registered the credentials and the TLS mode under is the registry host of
\* the reference the pushes use, and TLS is disabled exactly when the
\* configured host starts with "http://".
C17_LoginHostIsReferenceHost ==
    client.set =>
        /\ client.tls = "disabled" <=> HasPrefix(env.host, "http://")
        /\ reference.set => client.name = reference.registry

====
